---- MODULE Spec2Model ----
(***************************************************************************)
(* Model of the proofreading pipeline of arnavsinghtomar/Editor:           *)
(*   src/schemas.py      DetectionResult, AnalysisResponse                 *)
(*   src/pipeline.py     PipelineManager.analyze, ._resolve_conflicts      *)
(*   src/detectors.py    the four mandatory detectors                      *)
(*   src/llm_handler.py  LLMHandler.check_edge_cases                       *)
(* Confidences are kept in tenths (0.8 is 8), so that the comparisons of   *)
(* the resolver are integer comparisons.                                   *)
(***************************************************************************)
EXTENDS Integers, Sequences, FiniteSets, TLC

VARIABLES
    pc,         \* position of the running call
    errors,     \* the list `errors` (pipeline.py:31, argument of _resolve_conflicts)
    merged,     \* the list returned by _resolve_conflicts
    again,      \* the result of a second application to `merged`
    text,       \* the argument `text` of analyze
    use_llm,    \* the argument `use_llm` of analyze
    norm_text,  \* pipeline.py:21
    doc,        \* pipeline.py:27, the shared parsed form
    tool,       \* LanguageToolDetector.tool is set (detectors.py:104-108)
    available,  \* LLMHandler.available (llm_handler.py:14-20)
    llm_data,   \* the list of items answered by the language model
    llm_ran,    \* the language-model request of llm_handler.py:76 was issued
    calls,      \* the operations invoked by the call so far, in order
    response,   \* the AnalysisResponse returned once pc is "done"
    raised      \* the exception that left analyze, or NoValue

vars == <<pc, errors, merged, again, text, use_llm, norm_text, doc, tool,
          available, llm_data, llm_ran, calls, response, raised>>

-----------------------------------------------------------------------------
(* Bounds of the model *)

MaxLen == 3     \* longest finding list handed to the resolver
MaxPos == 2     \* largest character offset of a span
MaxText == 3    \* longest input text
MaxItems == 2   \* longest list of items answered by the language model

-----------------------------------------------------------------------------
(* src/schemas.py *)

ErrorType == {"spelling", "grammar", "agreement", "punctuation", "style"}

\* no exception
NoValue == "None"

\* DetectionResult(...), schemas.py:12-19.  Only the type of a field is
\* validated, and the range of confidence; message and suggestions are
\* carried along with source and are not kept apart from it here.
DetectionResult(t, a, b, c, src) ==
    [error_type |-> t, start_index |-> a, end_index |-> b, confidence |-> c,
     source |-> src]

Max(a, b) == IF a >= b THEN a ELSE b
Min(a, b) == IF a <= b THEN a ELSE b

Range(s) == {s[k] : k \in 1..Len(s)}

-----------------------------------------------------------------------------
(* src/pipeline.py, _resolve_conflicts *)

\* a priority map that ranks style with the grammar categories
priority_StyleAsGrammar(t) ==
    CASE t = "spelling"    -> 3
      [] t = "grammar"     -> 2
      [] t = "agreement"   -> 2
      [] t = "punctuation" -> 2
      [] t = "style"       -> 2
      [] OTHER             -> 0

\* priority.get(x.error_type, 0), pipeline.py:70-76
priority(t) ==
    CASE t = "spelling"    -> 3
      [] t = "grammar"     -> 2
      [] t = "agreement"   -> 2
      [] t = "punctuation" -> 2
      [] t = "style"       -> 1
      [] OTHER             -> 0

\* the sort key of pipeline.py:80, compared as Python compares tuples
SortKey(x) == <<x.start_index, 0 - priority(x.error_type), 0 - x.confidence>>

KeyLess(a, b) ==
    LET ka == SortKey(a)
        kb == SortKey(b)
    IN  \/ ka[1] < kb[1]
        \/ ka[1] = kb[1] /\ ka[2] < kb[2]
        \/ ka[1] = kb[1] /\ ka[2] = kb[2] /\ ka[3] < kb[3]

\* a sort that is not stable: x goes before the elements of equal key
RECURSIVE InsertSorted_Unstable(_, _)
InsertSorted_Unstable(x, s) ==
    IF s = <<>> THEN <<x>>
    ELSE IF ~KeyLess(Head(s), x) THEN <<x>> \o s
    ELSE <<Head(s)>> \o InsertSorted_Unstable(x, Tail(s))

\* list.sort is stable: x goes after every element whose key is not greater
RECURSIVE InsertSorted(_, _)
InsertSorted(x, s) ==
    IF s = <<>> THEN <<x>>
    ELSE IF KeyLess(x, Head(s)) THEN <<x>> \o s
    ELSE <<Head(s)>> \o InsertSorted(x, Tail(s))

\* the list left in the order of its arrival
SortErrors_Unsorted(s) == s

RECURSIVE SortErrors(_)
SortErrors(s) ==
    IF s = <<>> THEN <<>>
    ELSE InsertSorted(s[Len(s)], SortErrors(SubSeq(s, 1, Len(s) - 1)))

\* an overlap test that also counts touching spans
Overlap_Touching(current, other) ==
    Max(0, Min(current.end_index, other.end_index)
           - Max(current.start_index, other.start_index) + 1)

\* pipeline.py:104
Overlap(current, other) ==
    Max(0, Min(current.end_index, other.end_index)
           - Max(current.start_index, other.start_index))

\* a winner rule that compares the confidences before the priorities
Suppresses_ConfidenceFirst(other, current) ==
    /\ Overlap(current, other) > 0
    /\ \/ other.confidence > current.confidence
       \/ /\ other.confidence = current.confidence
          /\ priority(other.error_type) > priority(current.error_type)

\* a winner rule in which a tie in priority and confidence suppresses too
Suppresses_TieBreaks(other, current) ==
    /\ Overlap(current, other) > 0
    /\ \/ priority(other.error_type) > priority(current.error_type)
       \/ /\ priority(other.error_type) = priority(current.error_type)
          /\ other.confidence >= current.confidence

\* pipeline.py:105-116: `other` suppresses `current`.  The branch of
\* pipeline.py:117-130 (equal priority, equal confidence) is `pass`.
Suppresses(other, current) ==
    /\ Overlap(current, other) > 0
    /\ \/ priority(other.error_type) > priority(current.error_type)
       \/ /\ priority(other.error_type) = priority(current.error_type)
          /\ other.confidence > current.confidence

\* an inner loop that looks only at the findings before position i
IsSuppressed_Before(s, i) ==
    \E j \in 1..(i - 1) : Suppresses(s[j], s[i])

\* the inner loop of pipeline.py:98-130 for position i of the sorted list
IsSuppressed(s, i) ==
    \E j \in 1..Len(s) : j # i /\ Suppresses(s[j], s[i])

\* an outer loop that merges spans: a survivor is stretched to the end of
\* the findings that overlap it
RECURSIVE MergeFrom_Widening(_, _, _)
MergeFrom_Widening(s, i, acc) ==
    IF i > Len(s) THEN acc
    ELSE IF ~IsSuppressed(s, i) /\ s[i] \notin Range(acc)
         THEN LET ends == { s[j].end_index :
                              j \in { k \in 1..Len(s) : Overlap(s[i], s[k]) > 0 } }
                          \cup {s[i].end_index}
                  last == CHOOSE e \in ends : \A f \in ends : f <= e
              IN  MergeFrom_Widening(s, i + 1,
                      Append(acc, [s[i] EXCEPT !.end_index = last]))
         ELSE MergeFrom_Widening(s, i + 1, acc)

\* an outer loop that appends every finding that is not suppressed
RECURSIVE MergeFrom_NoDedup(_, _, _)
MergeFrom_NoDedup(s, i, acc) ==
    IF i > Len(s) THEN acc
    ELSE IF ~IsSuppressed(s, i)
         THEN MergeFrom_NoDedup(s, i + 1, Append(acc, s[i]))
         ELSE MergeFrom_NoDedup(s, i + 1, acc)

\* the outer loop of pipeline.py:88-134; matches_to_remove stays empty
RECURSIVE MergeFrom(_, _, _)
MergeFrom(s, i, acc) ==
    IF i > Len(s) THEN acc
    ELSE IF ~IsSuppressed(s, i) /\ s[i] \notin Range(acc)
         THEN MergeFrom(s, i + 1, Append(acc, s[i]))
         ELSE MergeFrom(s, i + 1, acc)

\* pipeline.py:65-136
resolve_conflicts(F) ==
    IF F = <<>> THEN <<>> ELSE MergeFrom(SortErrors(F), 1, <<>>)

-----------------------------------------------------------------------------
(* Text, normalisation and the shared parsed form *)

\* The characters of the model: a space, the letter e, the combining acute
\* accent U+0301 and the precomposed letter U+00E9.
Space == " "
InputChars == {Space, "e", "acute"}

Texts == UNION { [1..n -> InputChars] : n \in 0..MaxText }

\* unicodedata.normalize('NFC', text), pipeline.py:21: a letter followed by
\* its combining accent becomes the precomposed letter
RECURSIVE NFC(_)
NFC(t) ==
    IF Len(t) < 2 THEN t
    ELSE IF t[1] = "e" /\ t[2] = "acute"
         THEN <<"e_acute">> \o NFC(SubSeq(t, 3, Len(t)))
         ELSE <<t[1]>> \o NFC(Tail(t))

\* a test for the empty text that forgets strip()
IsBlank_EmptyOnly(t) == t = <<>>

\* `not t.strip()`, pipeline.py:23, detectors.py:114 and 225
IsBlank(t) == \A k \in 1..Len(t) : t[k] = Space

\* the last position of the token that starts at position i
TokenEnd(t, i) ==
    CHOOSE j \in i..Len(t) :
        /\ \A k \in i..j : t[k] # Space
        /\ j = Len(t) \/ t[j + 1] = Space

\* the tokens of the text with their character offsets (token.idx), their
\* text and their lexical attributes.  A token over these characters holds
\* no '.', '@' or scheme and no punctuation character, so like_url,
\* like_email and is_punct are false for each of them.
RECURSIVE ParseFrom(_, _)
ParseFrom(t, i) ==
    IF i > Len(t) THEN <<>>
    ELSE IF t[i] = Space THEN ParseFrom(t, i + 1)
    ELSE LET j == TokenEnd(t, i)
         IN  <<[idx |-> i - 1, text |-> SubSeq(t, i, j), like_url |-> FALSE,
                like_email |-> FALSE, is_punct |-> FALSE]>>
             \o ParseFrom(t, j + 1)

\* the part-of-speech tags (token.pos_) the tagger of the language model
\* gives: a proper noun or another tag
PosTags == {"PROPN", "NOUN"}

\* the taggings of the tokens of t: one tag for each token
Taggings(t) == [1..Len(ParseFrom(t, 1)) -> PosTags]

\* self.spacy_nlp(norm_text), pipeline.py:27, when the tagger answers pos
spacy_nlp(t, pos) ==
    LET tokens == ParseFrom(t, 1)
    IN  [k \in 1..Len(tokens) |->
            [idx |-> tokens[k].idx, text |-> tokens[k].text,
             pos_ |-> pos[k], like_url |-> tokens[k].like_url,
             like_email |-> tokens[k].like_email,
             is_punct |-> tokens[k].is_punct]]

\* token.is_alpha, detectors.py:46: a combining accent is no letter
is_alpha(token) ==
    \A k \in 1..Len(token.text) : token.text[k] \in {"e", "e_acute"}

-----------------------------------------------------------------------------
(* src/detectors.py *)

\* the findings of s at the positions of ks, in the order of s
RECURSIVE Collect(_, _, _)
Collect(s, ks, k) ==
    IF k > Len(s) THEN <<>>
    ELSE IF k \in ks THEN <<s[k]>> \o Collect(s, ks, k + 1)
    ELSE Collect(s, ks, k + 1)

\* the tokens that reach the dictionary lookup, detectors.py:44-51
LookedUp(d) ==
    { k \in 1..Len(d) :
        ~(\/ ~is_alpha(d[k])
          \/ d[k].like_url
          \/ d[k].like_email
          \/ d[k].pos_ = "PROPN"
          \/ d[k].is_punct) }

\* SpellingDetector.detect, detectors.py:38-98, when no lookup raises;
\* misspelt is the set of tokens the dictionary does not know
SpellingDetect(d, misspelt) ==
    IF d = <<>> THEN <<>>
    ELSE Collect([k \in 1..Len(d) |->
                    DetectionResult("spelling", d[k].idx,
                                    d[k].idx + Len(d[k].text), 9, "symspell")],
                 misspelt, 1)

\* A rule id is a string: the sequence of its characters.
\* str.startswith, detectors.py:138
StartsWith(str, prefix) ==
    /\ Len(prefix) <= Len(str)
    /\ SubSeq(str, 1, Len(prefix)) = prefix

\* `sub in str`, detectors.py:140
Contains(str, sub) ==
    \E i \in 1..(Len(str) - Len(sub) + 1) :
        SubSeq(str, i, i + Len(sub) - 1) = sub

UPPERCASE_SENTENCE_START ==
    <<"U", "P", "P", "E", "R", "C", "A", "S", "E", "_", "S", "E", "N", "T",
      "E", "N", "C", "E", "_", "S", "T", "A", "R", "T">>

HUNSPELL_RULE ==
    <<"H", "U", "N", "S", "P", "E", "L", "L", "_", "R", "U", "L", "E">>

SPELLER_RULE ==
    <<"S", "P", "E", "L", "L", "E", "R", "_", "R", "U", "L", "E">>

MORFOLOGIK_RULE_EN_US ==
    <<"M", "O", "R", "F", "O", "L", "O", "G", "I", "K", "_", "R", "U", "L",
      "E", "_", "E", "N", "_", "U", "S">>

EN_A_VS_AN ==
    <<"E", "N", "_", "A", "_", "V", "S", "_", "A", "N">>

\* the rules the grammar service answers with; a match without a rule id
\* has the empty one, detectors.py:130-135
RuleIds ==
    {UPPERCASE_SENTENCE_START, UPPERCASE_SENTENCE_START \o <<"_", "X">>,
     HUNSPELL_RULE, SPELLER_RULE, MORFOLOGIK_RULE_EN_US, EN_A_VS_AN, <<>>}

\* detectors.py:137-141
LTErrorType(rule_id) ==
    IF StartsWith(rule_id, UPPERCASE_SENTENCE_START) THEN "style"
    ELSE IF Contains(rule_id, <<"S", "P", "E", "L", "L">>) THEN "spelling"
    ELSE "grammar"

\* the answers of self.tool.check(text), detectors.py:118: no match, or one
\* match on a token
LTAnswers(d) ==
    {<<>>} \cup
    { <<[offset |-> d[k].idx, errorLength |-> Len(d[k].text), ruleId |-> r]>> :
        k \in 1..Len(d), r \in RuleIds }

\* the loop of detectors.py:122-159
LTResults(matches) ==
    [k \in 1..Len(matches) |->
        DetectionResult(LTErrorType(matches[k].ruleId), matches[k].offset,
                        matches[k].offset + matches[k].errorLength, 8,
                        "languagetool")]

\* the dependency arcs the parsed form can hold: a token and its head
Arcs(d) == { <<k, h>> \in (1..Len(d)) \X (1..Len(d)) : k # h }

\* CustomSpacyGrammarDetector.detect, detectors.py:162-221: subj_verb and
\* det_noun are the arcs whose two ends disagree in number
SpacyDetect(d, subj_verb, det_noun) ==
    IF d = <<>> THEN <<>>
    ELSE
      LET found(k) ==
            (IF \E h \in 1..Len(d) : <<k, h>> \in subj_verb
             THEN LET h == CHOOSE h \in 1..Len(d) : <<k, h>> \in subj_verb
                  IN  <<DetectionResult("agreement", d[k].idx,
                                        d[h].idx + Len(d[h].text), 6,
                                        "spacy_rule")>>
             ELSE <<>>)
            \o
            (IF \E h \in 1..Len(d) : <<k, h>> \in det_noun
             THEN LET h == CHOOSE h \in 1..Len(d) : <<k, h>> \in det_noun
                  IN  <<DetectionResult("agreement", d[k].idx,
                                        d[h].idx + Len(d[h].text), 7,
                                        "spacy_rule")>>
             ELSE <<>>)
          from[k \in 1..Len(d) + 1] ==
            IF k > Len(d) THEN <<>> ELSE found(k) \o from[k + 1]
      IN  from[1]

\* StyleDetector.detect, detectors.py:253-313: auxpass is the set of arcs
\* from a passive auxiliary to its verb.  A text of at most MaxText
\* characters has no sentence of more than 40 tokens and holds none of the
\* phrases of wordy_map, so the loops of detectors.py:274-311 add nothing.
StyleDetect(d, auxpass) ==
    IF d = <<>> THEN <<>>
    ELSE
      LET found(k) ==
            IF \E h \in 1..Len(d) : <<k, h>> \in auxpass
            THEN LET h == CHOOSE h \in 1..Len(d) : <<k, h>> \in auxpass
                 IN  <<DetectionResult("style", d[k].idx,
                                       d[h].idx + Len(d[h].text), 6,
                                       "style_heuristic_passive")>>
            ELSE <<>>
          from[k \in 1..Len(d) + 1] ==
            IF k > Len(d) THEN <<>> ELSE found(k) \o from[k + 1]
      IN  from[1]

\* StyleDetector.get_readability_metrics, detectors.py:224-251
DefaultMetrics ==
    [flesch_reading_ease |-> "0.0", smog_index |-> "0.0",
     flesch_kincaid_grade |-> "0.0", coleman_liau_index |-> "0.0",
     automated_readability_index |-> "0.0",
     dale_chall_readability_score |-> "0.0", difficult_words |-> "0",
     linsear_write_formula |-> "0.0", gunning_fog |-> "0.0",
     text_standard |-> "N/A"]

get_readability_metrics(t) ==
    IF IsBlank(t) THEN DefaultMetrics
    ELSE [f \in DOMAIN DefaultMetrics |-> "textstat"]

-----------------------------------------------------------------------------
(* src/llm_handler.py *)

\* An item of the answer is a JSON object: a function from the keys it
\* holds to their values.  item.get(key) is None for a key it does not hold.
ItemKeys == {"message", "start_index", "end_index"}

FullItems ==
    [message : {"msg"}, start_index : 0..(MaxText + 1),
     end_index : 0..(MaxText + 1)]

Items ==
    { [k \in held |-> full[k]] : full \in FullItems, held \in SUBSET ItemKeys }

\* DetectionResult(...) at llm_handler.py:90-98 raises a validation error
\* when message, start_index or end_index is None (schemas.py:14-16)
Validates(item) == ItemKeys \subseteq DOMAIN item

\* the loop of llm_handler.py:86-99 when no construction raises
LLMResults(items) ==
    [k \in 1..Len(items) |->
        DetectionResult("grammar", items[k].start_index, items[k].end_index,
                        7, "llm_edge_case")]

\* LLMHandler.check_edge_cases after the request, llm_handler.py:85-102:
\* data is the list data.get("errors", []); one construction that raises
\* sends the whole call to the handler of llm_handler.py:100-102
check_edge_cases(data) ==
    IF \E k \in 1..Len(data) : ~Validates(data[k]) THEN <<>>
    ELSE LLMResults(data)

-----------------------------------------------------------------------------
(* src/pipeline.py, analyze *)

\* AnalysisResponse(...), schemas.py:33-37
AnalysisResponse(errs, metrics, used) ==
    [errors |-> errs, readability |-> metrics, llm_used |-> used]

\* the value of `response` while analyze has not returned
NoResponse ==
    AnalysisResponse(<<>>, [f \in DOMAIN DefaultMetrics |-> "unset"], FALSE)

Init ==
    /\ pc = "analyze"
    /\ text \in Texts
    /\ use_llm \in BOOLEAN
    /\ tool \in BOOLEAN
    /\ available \in BOOLEAN
    /\ norm_text = <<>>
    /\ doc = <<>>
    /\ errors = <<>>
    /\ merged = <<>>
    /\ again = <<>>
    /\ llm_data = <<>>
    /\ llm_ran = FALSE
    /\ calls = <<>>
    /\ response = NoResponse
    /\ raised = NoValue

\* pipeline.py:21-24
Normalize ==
    /\ pc = "analyze"
    /\ norm_text' = NFC(text)
    /\ IF IsBlank(norm_text')
       THEN /\ response' = AnalysisResponse(<<>>, get_readability_metrics(<<>>),
                                            use_llm)
            /\ calls' = Append(calls, "readability")
            /\ pc' = "done"
       ELSE /\ pc' = "parse"
            /\ UNCHANGED <<response, calls>>
    /\ UNCHANGED <<errors, merged, again, text, use_llm, doc, tool, available,
                   llm_data, llm_ran, raised>>

\* a parse of the text as it came in, not of the normalized text
Parse_Raw ==
    /\ pc = "parse"
    /\ \E pos \in Taggings(text) : doc' = spacy_nlp(text, pos)
    /\ calls' = Append(calls, "parse")
    /\ pc' = "spelling"
    /\ UNCHANGED <<errors, merged, again, text, use_llm, norm_text, tool,
                   available, llm_data, llm_ran, response, raised>>

\* pipeline.py:27
Parse ==
    /\ pc = "parse"
    /\ \E pos \in Taggings(norm_text) : doc' = spacy_nlp(norm_text, pos)
    /\ calls' = Append(calls, "parse")
    /\ pc' = "spelling"
    /\ UNCHANGED <<errors, merged, again, text, use_llm, norm_text, tool,
                   available, llm_data, llm_ran, response, raised>>

\* pipeline.py:34: the lookup of detectors.py:55 is not guarded, so an
\* exception of the dictionary leaves detect and analyze
Spelling ==
    /\ pc = "spelling"
    /\ calls' = Append(calls, "spelling")
    /\ \/ /\ LookedUp(doc) # {}
          /\ raised' = "symspell"
          /\ pc' = "raised"
          /\ UNCHANGED errors
       \/ /\ \E misspelt \in SUBSET LookedUp(doc) :
                errors' = errors \o SpellingDetect(doc, misspelt)
          /\ pc' = "lt"
          /\ UNCHANGED raised
    /\ UNCHANGED <<merged, again, text, use_llm, norm_text, doc, tool,
                   available, llm_data, llm_ran, response>>

\* pipeline.py:37 with LanguageToolDetector.detect, detectors.py:110-118:
\* detect is entered and returns at once without a client or on a blank
\* text, or sends the request of detectors.py:118 and waits for its answer
LanguageToolCall ==
    /\ pc = "lt"
    /\ calls' = Append(calls, "lt")
    /\ pc' = IF ~tool \/ IsBlank(norm_text) THEN "spacy" ELSE "lt_wait"
    /\ UNCHANGED <<errors, merged, again, text, use_llm, norm_text, doc, tool,
                   available, llm_data, llm_ran, response, raised>>

\* detectors.py:118-159: the request raises or the service answers
LanguageToolAnswer ==
    /\ pc = "lt_wait"
    /\ \/ UNCHANGED errors              \* check raised, detectors.py:119-121
       \/ \E matches \in LTAnswers(doc) :
              errors' = errors \o LTResults(matches)
    /\ pc' = "spacy"
    /\ UNCHANGED <<merged, again, text, use_llm, norm_text, doc, tool,
                   available, llm_data, llm_ran, calls, response, raised>>

\* pipeline.py:38
SpacyGrammar ==
    /\ pc = "spacy"
    /\ calls' = Append(calls, "spacy")
    /\ \E subj_verb \in {{}} \cup {{a} : a \in Arcs(doc)} :
       \E det_noun \in {{}} \cup {{a} : a \in Arcs(doc)} :
          /\ subj_verb = {} \/ det_noun = {}
          /\ errors' = errors \o SpacyDetect(doc, subj_verb, det_noun)
    /\ pc' = "style"
    /\ UNCHANGED <<merged, again, text, use_llm, norm_text, doc, tool,
                   available, llm_data, llm_ran, response, raised>>

\* pipeline.py:41 and 44
Style ==
    /\ pc = "style"
    /\ calls' = Append(calls, "style")
    /\ \E auxpass \in {{}} \cup {{a} : a \in Arcs(doc)} :
          errors' = errors \o StyleDetect(doc, auxpass)
    /\ pc' = IF use_llm THEN "llm" ELSE "resolve"
    /\ UNCHANGED <<merged, again, text, use_llm, norm_text, doc, tool,
                   available, llm_data, llm_ran, response, raised>>

\* pipeline.py:45 with LLMHandler.check_edge_cases, llm_handler.py:50-84:
\* check_edge_cases is entered and returns at once without a client, or
\* sends the request of llm_handler.py:76 and waits for its answer
ContextualCall ==
    /\ pc = "llm"
    /\ calls' = Append(calls, "llm")
    /\ IF ~available
       THEN pc' = "resolve" /\ UNCHANGED llm_ran
       ELSE pc' = "llm_wait" /\ llm_ran' = TRUE
    /\ UNCHANGED <<errors, merged, again, text, use_llm, norm_text, doc, tool,
                   available, llm_data, response, raised>>

\* llm_handler.py:76-102: the request raises or the language model answers;
\* answers is the set of lists the language model may answer with
ContextualAnswer(answers) ==
    /\ pc = "llm_wait"
    /\ \/ UNCHANGED <<errors, llm_data>>      \* the request raised
       \/ \E data \in answers :
             /\ llm_data' = data
             /\ errors' = errors \o check_edge_cases(data)
    /\ pc' = "resolve"
    /\ UNCHANGED <<merged, again, text, use_llm, norm_text, doc, tool,
                   available, llm_ran, calls, response, raised>>

\* the answers drawn in a whole call: at most one item, well formed or with
\* an offset past the end of the text
CallAnswers ==
    {<<>>} \cup
    { <<i>> : i \in { j \in FullItems : /\ j.start_index \in {0, MaxText + 1}
                                        /\ j.end_index \in {0, MaxText + 1} } }

Contextual == ContextualAnswer(CallAnswers)

\* pipeline.py:48 with the in-place sort of pipeline.py:80
Resolve ==
    /\ pc = "resolve"
    /\ merged' = resolve_conflicts(errors)
    /\ errors' = SortErrors(errors)
    /\ pc' = "resolved"
    /\ calls' = Append(calls, "resolve")
    /\ UNCHANGED <<again, text, use_llm, norm_text, doc, tool, available,
                   llm_data, llm_ran, response, raised>>

\* pipeline.py:51-63
Respond ==
    /\ pc = "resolved"
    /\ calls' = Append(calls, "readability")
    /\ response' = AnalysisResponse(merged, get_readability_metrics(norm_text),
                                    use_llm)
    /\ pc' = "done"
    /\ UNCHANGED <<errors, merged, again, text, use_llm, norm_text, doc, tool,
                   available, llm_data, llm_ran, raised>>

Next ==
    \/ Normalize
    \/ Parse
    \/ Spelling
    \/ LanguageToolCall
    \/ LanguageToolAnswer
    \/ SpacyGrammar
    \/ Style
    \/ ContextualCall
    \/ Contextual
    \/ Resolve
    \/ Respond

Spec == Init /\ [][Next]_vars

\* The scheduling of one call.  analyze is sequential code: a step that needs
\* nothing but the process itself is eventually taken.  The request of
\* detectors.py:118 and the request of llm_handler.py:76 are made with no
\* timeout of their own, so the steps that end the wait for the grammar
\* service or for the language model are taken only if the service answers
\* or fails: nothing forces them.
LocalStep ==
    \/ Normalize
    \/ Parse
    \/ Spelling
    \/ LanguageToolCall
    \/ SpacyGrammar
    \/ Style
    \/ ContextualCall
    \/ Resolve
    \/ Respond

SpecLive == Init /\ [][Next]_vars /\ WF_vars(LocalStep)

-----------------------------------------------------------------------------
(* The resolver applied to every bounded finding list *)

Confidences == {6, 8}

Findings ==
    { DetectionResult(t, a, b, c, "languagetool") :
        t \in ErrorType, a \in 0..MaxPos, b \in 0..MaxPos, c \in Confidences }

WellFormed == { f \in Findings : f.start_index <= f.end_index }

InitResolve ==
    /\ pc = "resolve"
    /\ \E n \in 0..MaxLen : errors \in [1..n -> WellFormed]
    /\ merged = <<>>
    /\ again = <<>>
    /\ text = <<>>
    /\ use_llm = FALSE
    /\ norm_text = <<>>
    /\ doc = <<>>
    /\ tool = FALSE
    /\ available = FALSE
    /\ llm_data = <<>>
    /\ llm_ran = FALSE
    /\ calls = <<>>
    /\ response = NoResponse
    /\ raised = NoValue

\* the resolver applied to its own output
Reapply ==
    /\ pc = "resolved"
    /\ again' = resolve_conflicts(merged)
    /\ pc' = "reapplied"
    /\ calls' = Append(calls, "resolve")
    /\ UNCHANGED <<errors, merged, text, use_llm, norm_text, doc, tool,
                   available, llm_data, llm_ran, response, raised>>

NextResolve == Resolve \/ Reapply

SpecResolve == InitResolve /\ [][NextResolve]_vars

-----------------------------------------------------------------------------
(* check_edge_cases applied to every bounded answer of the language model *)

AllAnswers == UNION { [1..n -> Items] : n \in 0..MaxItems }

InitContextual ==
    /\ pc = "llm"
    /\ text \in { t \in Texts : ~IsBlank(t) }
    /\ use_llm = TRUE
    /\ tool = FALSE
    /\ available \in BOOLEAN
    /\ norm_text = NFC(text)
    /\ \E pos \in Taggings(norm_text) : doc = spacy_nlp(norm_text, pos)
    /\ errors = <<>>
    /\ merged = <<>>
    /\ again = <<>>
    /\ llm_data = <<>>
    /\ llm_ran = FALSE
    /\ calls = <<>>
    /\ response = NoResponse
    /\ raised = NoValue

NextContextual == ContextualCall \/ ContextualAnswer(AllAnswers)

SpecContextual == InitContextual /\ [][NextContextual]_vars

-----------------------------------------------------------------------------
(* Vocabulary of the properties, stated on spans and not on the resolver's  *)
(* own helpers                                                              *)

\* the offsets covered by the half-open span [start, end)
Covered(f) == { k \in 0..MaxPos : f.start_index <= k /\ k < f.end_index }

\* two findings conflict iff their spans share at least one offset
Conflict(a, b) == Covered(a) \cap Covered(b) # {}

PairwiseDisjoint(s) ==
    \A i, j \in 1..Len(s) : i # j => ~Conflict(s[i], s[j])

\* Spelling > Grammar = Agreement = Punctuation > Style
Tier(t) == IF t = "spelling" THEN 3 ELSE IF t = "style" THEN 1 ELSE 2

AscendingStart(s) ==
    \A i \in 1..Len(s) - 1 : s[i].start_index <= s[i + 1].start_index

NoRepeats(s) == \A i, j \in 1..Len(s) : i # j => s[i] # s[j]

Reordered(s, p) == [k \in 1..Len(s) |-> s[p[k]]]

IsReorderingOf(r, s) ==
    /\ Len(r) = Len(s)
    /\ \E p \in Permutations(1..Len(s)) : r = Reordered(s, p)

\* s without the later copies of a repeated element
RECURSIVE KeepFirst(_)
KeepFirst(s) ==
    IF s = <<>> THEN <<>>
    ELSE LET rest == KeepFirst(SubSeq(s, 1, Len(s) - 1))
             last == s[Len(s)]
         IN  IF last \in Range(rest) THEN rest ELSE Append(rest, last)

-----------------------------------------------------------------------------
(* Properties of the resolver *)

\* C1: the resolver's output contains no two distinct elements whose spans
\* have a strictly positive intersection, whatever the input list is.
C1_NoOverlapInOutput ==
    pc = "resolved" =>
        \A i, j \in 1..Len(merged) : i # j => ~Conflict(merged[i], merged[j])

\* C2: the resolver returns the same sequence for every reordering of its
\* input list.
C2_PermutationInvariant ==
    pc = "resolved" =>
        \A p \in Permutations(1..Len(errors)) :
            resolve_conflicts(Reordered(errors, p)) = merged

\* C3 as stated: on a list with pairwise disjoint spans the resolver returns
\* the list itself in ascending start order, dropping and adding nothing.
C3_IdentityOnDisjoint ==
    pc = "resolved" /\ PairwiseDisjoint(errors) =>
        IsReorderingOf(merged, errors) /\ AscendingStart(merged)

\* C3 as amended: on a list with pairwise disjoint spans the resolver returns
\* the sorted list with every repeated, structurally equal finding kept once:
\* nothing else is dropped, nothing is added, and the order is ascending in
\* start offset.
C3_IdentityUpToRepeats ==
    pc = "resolved" /\ PairwiseDisjoint(errors) =>
        /\ merged = KeepFirst(errors)
        /\ Range(merged) = Range(errors)
        /\ AscendingStart(merged)

\* C3 witness: a disjoint list of touching spans, a zero-length span and a
\* repeated finding has been resolved.
C3_Witness ==
    /\ pc = "resolved"
    /\ PairwiseDisjoint(errors)
    /\ Len(errors) = 3
    /\ Len(merged) = 2
    /\ \E i, j \in 1..Len(merged) :
          /\ merged[i].end_index = merged[j].start_index
          /\ merged[i].start_index < merged[i].end_index
          /\ Tier(merged[i].error_type) < Tier(merged[j].error_type)

\* C4: applying the resolver to its own output returns that output.
C4_Idempotent ==
    pc = "reapplied" => again = merged

\* C4 witness: a second application has run on an output that lost a
\* suppressed finding and still holds two conflicting findings.
C4_Witness ==
    /\ pc = "reapplied"
    /\ Len(merged) = 2
    /\ Len(errors) = 3
    /\ \E k \in 1..3 : errors[k] \notin Range(merged)
    /\ Conflict(merged[1], merged[2])

\* C5: of exactly two conflicting findings the one of higher category tier
\* is the whole output whatever the confidences are, and at equal tier the
\* one of strictly higher confidence is the whole output.
C5_PairwiseWinner ==
    pc = "resolved" /\ Len(errors) = 2 =>
        \A i, j \in 1..2 :
            (/\ i # j
             /\ Conflict(errors[i], errors[j])
             /\ \/ Tier(errors[i].error_type) > Tier(errors[j].error_type)
                \/ /\ Tier(errors[i].error_type) = Tier(errors[j].error_type)
                   /\ errors[i].confidence > errors[j].confidence)
            => merged = <<errors[i]>>

\* C5 witness: a conflicting pair was resolved in favour of the finding of
\* higher tier although its confidence is the lower one.
C5_Witness ==
    /\ pc = "resolved"
    /\ Len(errors) = 2
    /\ \E i, j \in 1..2 :
          /\ Conflict(errors[i], errors[j])
          /\ Tier(errors[i].error_type) > Tier(errors[j].error_type)
          /\ errors[i].confidence < errors[j].confidence
          /\ merged = <<errors[i]>>

\* C6: of two conflicting findings of equal tier and equal confidence exactly
\* one survives, the one earlier in the canonical sort order.
C6_FullTieOneSurvivor ==
    (/\ pc = "resolved"
     /\ Len(errors) = 2
     /\ Conflict(errors[1], errors[2])
     /\ Tier(errors[1].error_type) = Tier(errors[2].error_type)
     /\ errors[1].confidence = errors[2].confidence)
    => merged = <<errors[1]>>

-----------------------------------------------------------------------------
(* Properties of analyze and of the contextual detector *)

\* C7: the flag llm_used of the returned response is true if and only if the
\* contextual detector actually ran (issued its request) during the call.
C7_LlmUsedIffRan ==
    pc = "done" => (response.llm_used <=> llm_ran)

\* C8: no detector lets an exception of its backing service leave detect, so
\* analyze never ends with an exception.
C8_DetectorsFailOpen ==
    raised = NoValue /\ pc # "raised"

\* the span invariant of a finding over a text
SpanWithin(f, t) ==
    /\ 0 <= f.start_index
    /\ f.start_index <= f.end_index
    /\ f.end_index <= Len(t)

\* C9: a finding whose span is negative, inverted or past the end of the
\* text cannot be constructed, so no returned response holds one.
C9_SpansWithinText ==
    pc = "done" =>
        \A k \in 1..Len(response.errors) :
            SpanWithin(response.errors[k], norm_text)

\* the items of an answer that hold every field and a span inside the text
RECURSIVE WellFormedItems(_, _)
WellFormedItems(data, t) ==
    IF data = <<>> THEN <<>>
    ELSE LET item == Head(data)
             rest == WellFormedItems(Tail(data), t)
         IN  IF /\ ItemKeys \subseteq DOMAIN item
                /\ 0 <= item.start_index
                /\ item.start_index <= item.end_index
                /\ item.end_index <= Len(t)
             THEN <<item>> \o rest
             ELSE rest

\* C10: check_edge_cases returns a finding for exactly the items of the
\* answer that hold every field and a span inside the text; every other item
\* is discarded alone.
C10_PerItemValidation ==
    pc = "resolve" /\ llm_ran =>
        /\ Len(errors) = Len(WellFormedItems(llm_data, norm_text))
        /\ \A k \in 1..Len(errors) :
              /\ errors[k].start_index =
                    WellFormedItems(llm_data, norm_text)[k].start_index
              /\ errors[k].end_index =
                    WellFormedItems(llm_data, norm_text)[k].end_index

-----------------------------------------------------------------------------
(* Properties of the orchestration *)

\* the text holds nothing but whitespace
AllWhitespace(t) == \A k \in 1..Len(t) : t[k] = " "

\* how often the operation `name` was invoked
Count(log, name) == Cardinality({ k \in 1..Len(log) : log[k] = name })

Detectors == {"spelling", "lt", "spacy", "style", "llm"}

\* the fully defaulted readability snapshot
AllZero(metrics) ==
    \A f \in DOMAIN metrics :
        metrics[f] = (IF f = "text_standard" THEN "N/A"
                      ELSE IF f = "difficult_words" THEN "0" ELSE "0.0")

\* C11: when the normalised text is empty or whitespace only, analyze returns
\* at once a response with no finding and the all-zero readability snapshot,
\* and neither the parser nor any detector nor the resolver is invoked.
C11_EmptyShortCircuit ==
    (pc # "analyze" /\ AllWhitespace(norm_text)) =>
        /\ pc = "done"
        /\ response.errors = <<>>
        /\ AllZero(response.readability)
        /\ \A k \in 1..Len(calls) :
              calls[k] \notin Detectors \cup {"parse", "resolve"}

\* C11 witness: a call on a non-empty whitespace text with use_llm set has
\* returned.
C11_Witness ==
    /\ pc = "done"
    /\ text # <<>>
    /\ AllWhitespace(norm_text)
    /\ use_llm
    /\ available

\* C12: analyze eventually returns a response even if the grammar service or
\* the language model blocks or never answers: a call that has reached the
\* grammar service detector gets to its response.
C12_EventuallyReturns ==
    (pc = "lt") ~> (pc = "done")

\* the invocations of a call that has ended: every mandatory detector once,
\* the contextual detector once if and only if use_llm, and the resolver
\* once, after every detector
InvocationSetAsClaimed ==
    /\ \A d \in {"spelling", "lt", "spacy", "style"} : Count(calls, d) = 1
    /\ Count(calls, "llm") = (IF use_llm THEN 1 ELSE 0)
    /\ Count(calls, "resolve") = 1
    /\ \A i, j \in 1..Len(calls) :
          calls[i] = "resolve" /\ calls[j] \in Detectors => j < i

\* C14: in every call of analyze on a text that is not blank, each of the
\* four mandatory detectors is invoked exactly once, the contextual detector
\* if and only if use_llm is set, and the resolver exactly once after them.
C14_InvocationSet ==
    (pc \in {"done", "raised"} /\ ~AllWhitespace(norm_text)) =>
        InvocationSetAsClaimed

\* the text with every precomposed letter written as letter and accent
RECURSIVE Decompose(_)
Decompose(t) ==
    IF t = <<>> THEN <<>>
    ELSE IF Head(t) = "e_acute" THEN <<"e", "acute">> \o Decompose(Tail(t))
    ELSE <<Head(t)>> \o Decompose(Tail(t))

\* n is the canonical composed form of t
IsComposedFormOf(n, t) ==
    /\ Decompose(n) = t
    /\ \A k \in 1..(Len(n) - 1) : ~(n[k] = "e" /\ n[k + 1] = "acute")

\* d holds, in order, exactly the maximal runs of t without a space
IsTokenisationOf(d, t) ==
    /\ \A k \in 1..Len(d) :
          /\ d[k].text # <<>>
          /\ d[k].idx + Len(d[k].text) <= Len(t)
          /\ d[k].text = SubSeq(t, d[k].idx + 1, d[k].idx + Len(d[k].text))
          /\ \A c \in 1..Len(d[k].text) : d[k].text[c] # Space
          /\ d[k].idx = 0 \/ t[d[k].idx] = Space
          /\ \/ d[k].idx + Len(d[k].text) = Len(t)
             \/ t[d[k].idx + Len(d[k].text) + 1] = Space
    /\ \A k \in 1..(Len(d) - 1) : d[k].idx < d[k + 1].idx
    /\ \A c \in 1..Len(t) :
          t[c] # Space =>
              \E k \in 1..Len(d) :
                  d[k].idx < c /\ c <= d[k].idx + Len(d[k].text)

\* the detectors that read the parsed form, by the source of their findings
FromParsedForm == {"symspell", "spacy_rule", "style_heuristic_passive"}

\* the state of a call on a text that is not blank, once the parse is done
ParsedOnceAndShared ==
    /\ Count(calls, "parse") = 1
    /\ calls[1] = "parse"
    /\ IsComposedFormOf(norm_text, text)
    /\ IsTokenisationOf(doc, norm_text)
    /\ \A k \in 1..Len(errors) :
          errors[k].source \in FromParsedForm =>
              \E a, b \in 1..Len(doc) :
                  /\ errors[k].start_index = doc[a].idx
                  /\ errors[k].end_index = doc[b].idx + Len(doc[b].text)

\* C15: in every call of analyze on a text that is not blank the parse is
\* invoked exactly once and before any detector, on the normalized text; the
\* findings of the detectors that take a parsed form lie on the tokens of
\* that one parsed form; and no step after the parse changes the parsed form
\* or the normalized text.
C15_ParseOnceShared ==
    [][ /\ pc' \notin {"analyze", "parse"} /\ ~AllWhitespace(norm_text')
            => ParsedOnceAndShared'
        /\ pc \notin {"analyze", "parse"}
            => doc' = doc /\ norm_text' = norm_text /\ text' = text ]_vars

C15_Witness ==
    /\ pc = "done"
    /\ norm_text # text
    /\ doc # <<>>
    /\ \E k \in 1..Len(response.errors) : response.errors[k].source = "symspell"
    /\ \A d \in {"spelling", "lt", "spacy", "style"} : Count(calls, d) = 1

-----------------------------------------------------------------------------
(* Further properties of the resolver *)

\* C13: the sequence returned by the resolver is ascending in start offset:
\* of two consecutive elements the first does not start after the second.
C13_OutputAscending ==
    pc = "resolved" =>
        \A k \in 1..(Len(merged) - 1) :
            merged[k].start_index <= merged[k + 1].start_index

\* C13 witness: the resolver has returned three findings that start at
\* three offsets.
C13_Witness ==
    /\ pc = "resolved"
    /\ Len(merged) = 3
    /\ merged[1].start_index < merged[2].start_index
    /\ merged[2].start_index < merged[3].start_index

\* y defeats x: they conflict and y is of higher tier, or of equal tier and
\* strictly higher confidence
Defeats(y, x) ==
    /\ Conflict(y, x)
    /\ \/ Tier(y.error_type) > Tier(x.error_type)
       \/ /\ Tier(y.error_type) = Tier(x.error_type)
          /\ y.confidence > x.confidence

\* C16: a finding of the input is in the output if and only if no other
\* finding of the input defeats it, whether or not that other finding is in
\* the output itself.
C16_WholeSetSurvival ==
    pc = "resolved" =>
        \A k \in 1..Len(errors) :
            errors[k] \in Range(merged) <=>
                ~\E j \in 1..Len(errors) : j # k /\ Defeats(errors[j], errors[k])

\* C16 witness: a chain Spelling / Grammar / Style, each conflicting with the
\* next only, has been resolved to the Spelling finding alone: the Style
\* finding is excluded by the Grammar finding, which is excluded itself.
C16_Witness ==
    /\ pc = "resolved"
    /\ Len(errors) = 3
    /\ \E s, g, y \in 1..3 :
          /\ errors[s].error_type = "spelling"
          /\ errors[g].error_type = "grammar"
          /\ errors[y].error_type = "style"
          /\ Conflict(errors[s], errors[g])
          /\ Conflict(errors[g], errors[y])
          /\ ~Conflict(errors[s], errors[y])
          /\ merged = <<errors[s]>>

\* the findings of F that some finding of S defeats
DefeatedBy(S, F) == { x \in F : \E y \in S : Defeats(y, x) }

\* the findings of F linked to a finding of S by a chain of at most n defeats
RECURSIVE DefeatClosure(_, _, _)
DefeatClosure(S, F, n) ==
    IF n = 0 THEN S
    ELSE DefeatClosure(S \cup DefeatedBy(S, F), F, n - 1)

\* C17 as stated: every finding of the input that is not in the output
\* conflicts with at least one member of the output, so that none could be
\* added back without a conflict.
C17_Maximal ==
    pc = "resolved" =>
        \A k \in 1..Len(errors) :
            errors[k] \notin Range(merged) =>
                \E m \in 1..Len(merged) : Conflict(errors[k], merged[m])

\* C17 as amended: every finding of the input that is not in the output is
\* defeated by a finding of the input, which need not be in the output
\* itself; following the defeats upwards always ends at a member of the
\* output.  An excluded finding may conflict with no member of the output.
C17_ExcludedAreDefeated ==
    pc = "resolved" =>
        /\ \A x \in Range(errors) \ Range(merged) :
              \E y \in Range(errors) : Defeats(y, x)
        /\ Range(errors) =
              DefeatClosure(Range(merged), Range(errors), Len(errors))

\* C17 witness: a finding was excluded although it conflicts with no member
\* of the output; the finding that defeats it was excluded as well.
C17_Witness ==
    /\ pc = "resolved"
    /\ \E x \in Range(errors) \ Range(merged) :
          /\ \A m \in 1..Len(merged) : ~Conflict(x, merged[m])
          /\ \E y \in Range(errors) \ Range(merged) : Defeats(y, x)
    /\ merged # <<>>

\* no non-empty set of positions of s in which every member is suppressed
\* by another member: the relation `suppresses` has no cycle of any length
NoSuppressionCycle(s) ==
    \A G \in SUBSET (1..Len(s)) :
        G # {} => \E k \in G : \A j \in G \ {k} : ~Suppresses(s[j], s[k])

\* the positions of G are a group of mutually overlapping findings: every
\* two of them conflict, and no finding outside G conflicts with all of them
MutuallyOverlapping(s, G) ==
    /\ Cardinality(G) >= 2
    /\ \A i, j \in G : i # j => Conflict(s[i], s[j])
    /\ \A j \in (1..Len(s)) \ G : \E i \in G : ~Conflict(s[i], s[j])

\* G holds, with each of its positions, every position that conflicts with it
ClosedUnderConflict(s, G) ==
    \A i \in G : \A j \in 1..Len(s) : Conflict(s[i], s[j]) => j \in G

Survives(s, k) == s[k] \in Range(merged)

\* C18 as stated: the relation `suppresses` has no cycle, within every group
\* of mutually overlapping findings at least one survives, and a non-empty
\* input never resolves to an empty output.
C18_GroupSurvivor ==
    pc = "resolved" =>
        /\ NoSuppressionCycle(errors)
        /\ \A G \in SUBSET (1..Len(errors)) :
              MutuallyOverlapping(errors, G) => \E k \in G : Survives(errors, k)
        /\ errors # <<>> => merged # <<>>

\* C18 as amended: the relation `suppresses` has no cycle; at least one
\* finding survives in every non-empty group that holds, with each of its
\* findings, all the findings of the input conflicting with it; and a
\* non-empty input never resolves to an empty output.  A group of mutually
\* overlapping findings can be excluded as a whole, by a finding outside it.
C18_AcyclicDefeat ==
    pc = "resolved" =>
        /\ NoSuppressionCycle(errors)
        /\ \A G \in SUBSET (1..Len(errors)) :
              G # {} /\ ClosedUnderConflict(errors, G) =>
                  \E k \in G : Survives(errors, k)
        /\ errors # <<>> => merged # <<>>

\* C18 witness: two conflicting findings were both excluded, the stronger of
\* them by a third finding that does not conflict with the weaker one, and
\* the output is not empty.
C18_Witness ==
    /\ pc = "resolved"
    /\ merged # <<>>
    /\ \E G \in SUBSET (1..Len(errors)) :
          /\ MutuallyOverlapping(errors, G)
          /\ \A k \in G : ~Survives(errors, k)
          /\ \E k \in G : \E j \in 1..Len(errors) :
                /\ j \notin G
                /\ Suppresses(errors[j], errors[k])
                /\ \E i \in G : ~Conflict(errors[j], errors[i])

\* x and y agree in every field
SameFields(x, y) ==
    /\ x.error_type = y.error_type
    /\ x.start_index = y.start_index
    /\ x.end_index = y.end_index
    /\ x.confidence = y.confidence
    /\ x.source = y.source

\* C19: every element of the resolver's output is an element of the list it
\* was given, with every field unchanged; no other finding appears in the
\* output, and the list given holds the same findings after the call.
C19_OnlySelects ==
    [][ pc = "resolve" =>
          /\ \A m \in 1..Len(merged') :
                \E k \in 1..Len(errors) : SameFields(merged'[m], errors[k])
          /\ IsReorderingOf(errors', errors) ]_vars

\* C19 witness: the resolver kept a finding and dropped a conflicting one
\* that ends after it.
C19_Witness ==
    /\ pc = "resolved"
    /\ \E m \in 1..Len(merged) : \E k \in 1..Len(errors) :
          /\ errors[k] \notin Range(merged)
          /\ Conflict(errors[k], merged[m])
          /\ errors[k].end_index > merged[m].end_index

\* the positions of s that hold a finding structurally equal to x
Copies(s, x) == { m \in 1..Len(s) : SameFields(s[m], x) }

\* C20: the resolver's output never holds two structurally equal findings,
\* even when the input holds the same finding several times; a repeated
\* finding that nothing defeats is in the output exactly once.
C20_NoDuplicates ==
    pc = "resolved" =>
        /\ \A m \in 1..Len(merged) : Copies(merged, merged[m]) = {m}
        /\ \A k \in 1..Len(errors) :
              (/\ Cardinality(Copies(errors, errors[k])) >= 2
               /\ \A j \in 1..Len(errors) : ~Defeats(errors[j], errors[k]))
              => Cardinality(Copies(merged, errors[k])) = 1

\* C20 witness: the input held the same finding of non-zero length twice
\* next to another finding, nothing defeated it, and the output holds it
\* once.
C20_Witness ==
    /\ pc = "resolved"
    /\ Len(errors) = 3
    /\ Len(merged) = 2
    /\ \E k \in 1..3 :
          /\ errors[k].start_index < errors[k].end_index
          /\ Cardinality(Copies(errors, errors[k])) = 2
          /\ Cardinality(Copies(merged, errors[k])) = 1

====
